---- MODULE Spec2Model ----
(***************************************************************************)
(* Thread Session Controller of the conversation display demo.             *)
(*                                                                         *)
(* src/app.py               main, initialize_demo_session                  *)
(* src/app/ui/components.py display_sidebar, _display_conversation_list    *)
(*                                                                         *)
(* One script run of main() is one step: a run is started by a rerun of    *)
(* the page or by a click on a widget the previous run drew, and it ends   *)
(* when the script returns or when an exception leaves main().  The        *)
(* persistence functions (load_thread_ids, load_conversation,              *)
(* create_new_conversation, get_welcome_message) live in backend/ and are  *)
(* modelled from the contract of spec.md section 6; each call either       *)
(* succeeds or raises without having had any effect.                       *)
(***************************************************************************)
EXTENDS Integers, Sequences, FiniteSets, TLC

VARIABLES
    session_state,  \* st.session_state: a dict, a key is set or absent
    threads_db,     \* the persisted threads, oldest first
    sidebar,        \* the widgets the last script run drew
    last,           \* what the last step was and how it ended
    message,        \* display_chat_messages: the message being displayed
    seg_pc,         \* display_chat_messages: where the display of it stands
    line_no,        \* the index in lines of the line the loop takes next
    current_section,    \* "final" or "progress"
    progress_content,   \* the text gathered for the expander
    final_content,      \* the text gathered for the main display
    chat            \* the blocks emitted for the message, in order

\* The state of the Thread Session Controller.
ctlvars == <<session_state, threads_db, sidebar, last>>

\* The state of display_chat_messages.
segvars == <<message, seg_pc, line_no, current_section, progress_content,
             final_content, chat>>

vars == <<session_state, threads_db, sidebar, last, message, seg_pc, line_no,
          current_section, progress_content, final_content, chat>>

\* The largest number of threads persisted before the session starts.
MaxStored == 2
\* The largest number of messages a persisted thread holds.
MaxMsgs == 2
\* The largest number of lines of a displayed message's content.
MaxLines == 3

(***************************************************************************)
(* Persistence collaborator (backend/, spec.md section 6)                  *)
(***************************************************************************)

\* get_welcome_message(): the single seed message of a fresh thread.
WelcomeMessage == [role |-> "assistant", content |-> "welcome"]

\* The j-th message of a persisted conversation: the welcome message, then
\* user questions and assistant answers in turn.
StoredMessage(j) ==
    IF j = 1 THEN WelcomeMessage
    ELSE IF j % 2 = 0 THEN [role |-> "user", content |-> "question"]
    ELSE [role |-> "assistant", content |-> "answer"]

\* A persisted history of h messages (a thread with zero messages is valid).
History(h) == [j \in 1..h |-> StoredMessage(j)]

\* loadRoster(): the roster entries of the persisted threads, oldest first.
load_thread_ids(db) == [i \in 1..Len(db) |-> [thread_id |-> db[i].thread_id]]

\* The ids of a roster.
RosterIds(roster) == {roster[i].thread_id : i \in 1..Len(roster)}

\* Whether persistence holds a record of thread_id.
HasThread(db, thread_id) == \E i \in 1..Len(db) : db[i].thread_id = thread_id

\* loadThread(thread_id): the full ordered history of a persisted thread.
ThreadMessages(db, thread_id) ==
    db[CHOOSE i \in 1..Len(db) : db[i].thread_id = thread_id].messages

\* An id no persisted thread has.
NextThreadId(db) ==
    IF db = << >> THEN 1
    ELSE 1 + (CHOOSE m \in RosterIds(load_thread_ids(db)) :
                 \A n \in RosterIds(load_thread_ids(db)) : n <= m)

\* 'key' in st.session_state
Has(ss, key) == key \in DOMAIN ss

\* st.session_state.key = value
Set(ss, key, value) == (key :> value) @@ ss

\* load_conversation(thread_id, app): the thread's history becomes messages,
\* the thread becomes current and the processed-id sets are reset.
load_conversation(ss, db, thread_id) ==
    Set(Set(Set(Set(ss,
        "current_thread_id", thread_id),
        "messages", ThreadMessages(db, thread_id)),
        "processed_message_ids", {}),
        "processed_tools_ids", {})

\* create_new_conversation(): the dict it returns.
create_new_conversation(db) ==
    [thread_id |-> NextThreadId(db),
     messages |-> <<WelcomeMessage>>,
     processed_message_ids |-> {},
     processed_tools_ids |-> {}]

\* create_new_conversation(): the thread record it persists.
PersistNewThread(db) ==
    Append(db, [thread_id |-> NextThreadId(db), messages |-> <<WelcomeMessage>>])

(***************************************************************************)
(* initialize_demo_session (src/app.py)                                    *)
(***************************************************************************)

\* The persistence call a run is told to fail at, if it makes that call.
FailChoices ==
    {"none", "load_thread_ids", "load_conversation",
     "create_new_conversation", "load_thread_ids_refresh"}

\* The function returned: no exception left it.
Returned(ss, db, failed, path) ==
    [ss |-> ss, db |-> db, raised |-> FALSE, failed |-> failed, path |-> path]

\* An exception left the function; the assignments made so far stay.
Raised(ss, db, failed) ==
    [ss |-> ss, db |-> db, raised |-> TRUE, failed |-> failed, path |-> "raised"]

\* A faulty recent_thread: the oldest roster entry, thread_ids[0].
recent_thread_first(ss) == ss.thread_ids[1]

\* recent_thread = st.session_state.thread_ids[-1]
recent_thread(ss) == ss.thread_ids[Len(ss.thread_ids)]

\* A faulty fallback: a locally made id instead of the roster entry's.
BootstrapFallbackLocalId(ss, recent) ==
    Set(Set(Set(Set(ss,
        "current_thread_id", 1 + Len(ss.thread_ids)),
        "messages", <<WelcomeMessage>>),
        "processed_message_ids", {}),
        "processed_tools_ids", {})

\* A faulty fallback: messages is left an empty list.
BootstrapFallbackNoWelcome(ss, recent) ==
    Set(Set(Set(Set(ss,
        "current_thread_id", recent.thread_id),
        "messages", << >>),
        "processed_message_ids", {}),
        "processed_tools_ids", {})

\* except Exception: the fallback to basic initialization.
BootstrapFallback(ss, recent) ==
    Set(Set(Set(Set(ss,
        "current_thread_id", recent.thread_id),
        "messages", <<WelcomeMessage>>),
        "processed_message_ids", {}),
        "processed_tools_ids", {})

\* The else branch: the session takes over what create_new_conversation gave.
BootstrapCreate(ss, new_conv) ==
    Set(Set(Set(Set(ss,
        "current_thread_id", new_conv.thread_id),
        "messages", new_conv.messages),
        "processed_message_ids", new_conv.processed_message_ids),
        "processed_tools_ids", new_conv.processed_tools_ids)

\* if 'waiting_for_approval' not in st.session_state: ... = False
InitWaitingState(ss) ==
    IF Has(ss, "waiting_for_approval") THEN ss
    ELSE Set(ss, "waiting_for_approval", FALSE)

\* A faulty guard: the current conversation is initialized on every run.
NeedsBootstrapAlways(ss) == TRUE

\* if 'current_thread_id' not in st.session_state
NeedsBootstrap(ss) == ~Has(ss, "current_thread_id")

\* initialize_demo_session(), told to fail at the call named by fail.
initialize_demo_session(ss, db, fail) ==
    IF ~Has(ss, "thread_ids") /\ fail = "load_thread_ids"
    THEN Raised(ss, db, "load_thread_ids")
    ELSE
    LET s1 == IF Has(ss, "thread_ids") THEN ss
              ELSE Set(ss, "thread_ids", load_thread_ids(db))
    IN
    IF ~NeedsBootstrap(s1)
    THEN Returned(InitWaitingState(s1), db, "none", "initialized")
    ELSE IF s1.thread_ids # << >>
    THEN LET recent == recent_thread(s1) IN
         IF fail = "load_conversation" \/ ~HasThread(db, recent.thread_id)
         THEN Returned(InitWaitingState(BootstrapFallback(s1, recent)), db,
                       "load_conversation", "fallback")
         ELSE Returned(InitWaitingState(load_conversation(s1, db, recent.thread_id)),
                       db, "none", "loaded")
    ELSE IF fail = "create_new_conversation"
    THEN Raised(s1, db, "create_new_conversation")
    ELSE
    LET new_conv == create_new_conversation(db)
        db1 == PersistNewThread(db)
        s2 == BootstrapCreate(s1, new_conv)
    IN
    IF fail = "load_thread_ids_refresh"
    THEN Raised(s2, db1, "load_thread_ids")
    ELSE Returned(InitWaitingState(Set(s2, "thread_ids", load_thread_ids(db1))),
                  db1, "none", "created")

(***************************************************************************)
(* display_sidebar, _display_conversation_list (src/app/ui/components.py)  *)
(***************************************************************************)

\* reversed(st.session_state.thread_ids): most recent first.
reversed(seq) == [i \in 1..Len(seq) |-> seq[Len(seq) + 1 - i]]

\* A faulty is_current: no entry is ever recognised as the current one.
is_current_never(ss, thread_id) == FALSE

\* is_current = thread_id == st.session_state.current_thread_id
is_current(ss, thread_id) == thread_id = ss.current_thread_id

\* The conversation buttons of the list, in display order, each with its
\* disabled flag.
ConversationButtons(ss) ==
    LET rev == reversed(ss.thread_ids) IN
    [i \in 1..Len(rev) |->
        [thread_id |-> rev[i].thread_id,
         disabled |-> is_current(ss, rev[i].thread_id)]]

\* The delete buttons of the list, in display order.
DeleteButtons(ss) ==
    LET rev == reversed(ss.thread_ids) IN
    [i \in 1..Len(rev) |-> rev[i].thread_id]

\* Nothing drawn: the run ended before display_sidebar.
NoSidebar == [new_task |-> FALSE, select |-> << >>, delete |-> << >>]

\* display_sidebar ran to its end.
display_sidebar(ss) ==
    [new_task |-> TRUE, select |-> ConversationButtons(ss),
     delete |-> DeleteButtons(ss)]

\* display_sidebar left by an exception in the handler of the i-th
\* conversation button: the list is drawn up to that button.
SidebarUpTo(ss, i) ==
    [new_task |-> TRUE, select |-> SubSeq(ConversationButtons(ss), 1, i),
     delete |-> SubSeq(DeleteButtons(ss), 1, i - 1)]

\* A faulty New Task handler: the one that creates a conversation.
NewTaskHandlerCreates(ss, db) ==
    [ss |-> Set(BootstrapCreate(ss, create_new_conversation(db)),
                "thread_ids", load_thread_ids(PersistNewThread(db))),
     db |-> PersistNewThread(db)]

\* if st.button("New Task"): st.rerun()
NewTaskHandler(ss, db) == [ss |-> ss, db |-> db]

\* A faulty delete handler: the one that removes the thread and refreshes
\* the roster.
DeleteHandlerRemoves(ss, db, thread_id) ==
    LET db1 == SelectSeq(db, LAMBDA t : t.thread_id # thread_id) IN
    [ss |-> Set(ss, "thread_ids", load_thread_ids(db1)), db |-> db1]

\* if st.button("🗑️", key=f"del_{thread_id}"): st.rerun()
DeleteHandler(ss, db, thread_id) == [ss |-> ss, db |-> db]

\* A faulty conversation button handler: it reloads the current thread.
SelectHandlerStale(ss, db, thread_id) ==
    load_conversation(ss, db, ss.current_thread_id)

\* The conversation button's handler: load_conversation(thread_id, app)
SelectHandler(ss, db, thread_id) == load_conversation(ss, db, thread_id)

(***************************************************************************)
(* The state machine                                                       *)
(***************************************************************************)

\* The record of a step.
Step(op, id, outcome, failed, path) ==
    [op |-> op, id |-> id, outcome |-> outcome, failed |-> failed, path |-> path]

\* The persisted threads a session may find: at most MaxStored threads,
\* each with at most MaxMsgs messages.
InitialStores ==
    UNION {{[i \in 1..n |-> [thread_id |-> i, messages |-> History(hs[i])]] :
              hs \in [1..n -> 0..MaxMsgs]} : n \in 0..MaxStored}

\* No message is being displayed.
SegIdle ==
    /\ message = [role |-> "assistant", content |-> << >>]
    /\ seg_pc = "idle"
    /\ line_no = 1
    /\ current_section = "final"
    /\ progress_content = << >>
    /\ final_content = << >>
    /\ chat = << >>

\* A new session: st.session_state is empty and nothing is drawn.
Init ==
    /\ session_state = << >>
    /\ threads_db \in InitialStores
    /\ sidebar = NoSidebar
    /\ last = Step("start", 0, "none", "none", "none")
    /\ SegIdle

\* main() run for a session without current_thread_id: Bootstrap.
Bootstrap ==
    /\ ~Has(session_state, "current_thread_id")
    /\ \E fail \in FailChoices :
        LET r == initialize_demo_session(session_state, threads_db, fail) IN
        /\ session_state' = r.ss
        /\ threads_db' = r.db
        /\ sidebar' = IF r.raised THEN NoSidebar ELSE display_sidebar(r.ss)
        /\ last' = Step("Bootstrap", 0,
                        IF r.raised THEN "crashed" ELSE "completed",
                        r.failed, r.path)
    /\ UNCHANGED segvars

\* main() run again for a session that has a current thread.
Rerun ==
    /\ Has(session_state, "current_thread_id")
    /\ \E fail \in FailChoices :
        LET r == initialize_demo_session(session_state, threads_db, fail) IN
        /\ session_state' = r.ss
        /\ threads_db' = r.db
        /\ sidebar' = IF r.raised THEN NoSidebar ELSE display_sidebar(r.ss)
        /\ last' = Step("Rerun", 0,
                        IF r.raised THEN "crashed" ELSE "completed",
                        r.failed, r.path)
    /\ UNCHANGED segvars

\* A click on "New Task": CreateNew.
ClickNewTask ==
    /\ sidebar.new_task
    /\ LET r == initialize_demo_session(session_state, threads_db, "none")
           h == NewTaskHandler(r.ss, r.db)
       IN
       /\ session_state' = h.ss
       /\ threads_db' = h.db
       /\ sidebar' = display_sidebar(h.ss)
       /\ last' = Step("CreateNew", 0, "completed", "none", "none")
    /\ UNCHANGED segvars

\* A click on the i-th conversation button: Select. A disabled button
\* starts no run.
ClickSelect(i) ==
    /\ i \in 1..Len(sidebar.select)
    /\ LET b == sidebar.select[i] IN
       IF b.disabled
       THEN /\ UNCHANGED <<session_state, threads_db, sidebar>>
            /\ last' = Step("Select", b.thread_id, "disabled", "none", "none")
       ELSE \E fail \in {"none", "load_conversation"} :
            LET r == initialize_demo_session(session_state, threads_db, "none") IN
            IF fail = "load_conversation" \/ ~HasThread(r.db, b.thread_id)
            THEN /\ session_state' = r.ss
                 /\ threads_db' = r.db
                 /\ sidebar' = SidebarUpTo(r.ss, i)
                 /\ last' = Step("Select", b.thread_id, "crashed",
                                 "load_conversation", "none")
            ELSE LET ss2 == SelectHandler(r.ss, r.db, b.thread_id) IN
                 /\ session_state' = ss2
                 /\ threads_db' = r.db
                 /\ sidebar' = display_sidebar(ss2)
                 /\ last' = Step("Select", b.thread_id, "completed", "none", "none")
    /\ UNCHANGED segvars

\* A click on the i-th delete button: Delete.
ClickDelete(i) ==
    /\ i \in 1..Len(sidebar.delete)
    /\ LET r == initialize_demo_session(session_state, threads_db, "none")
           h == DeleteHandler(r.ss, r.db, sidebar.delete[i])
       IN
       /\ session_state' = h.ss
       /\ threads_db' = h.db
       /\ sidebar' = display_sidebar(h.ss)
       /\ last' = Step("Delete", sidebar.delete[i], "completed", "none", "none")
    /\ UNCHANGED segvars

\* The approval flow raises or clears the pending-approval flag.
ApprovalChange ==
    /\ Has(session_state, "waiting_for_approval")
    /\ session_state' = Set(session_state, "waiting_for_approval",
                            ~session_state.waiting_for_approval)
    /\ UNCHANGED <<threads_db, sidebar>>
    /\ last' = Step("ApprovalChange", 0, "completed", "none", "none")
    /\ UNCHANGED segvars

Next ==
    \/ Bootstrap
    \/ Rerun
    \/ ClickNewTask
    \/ \E i \in 1..Len(sidebar.select) : ClickSelect(i)
    \/ \E i \in 1..Len(sidebar.delete) : ClickDelete(i)
    \/ ApprovalChange

Spec == Init /\ [][Next]_vars

(***************************************************************************)
(* display_chat_messages (src/app/ui/components.py)                        *)
(*                                                                         *)
(* A text is a sequence of tokens: the bold delimiter "**", a blank " ",   *)
(* the line break "\n", an agent name in some case, or other words.  The   *)
(* display of one message is a run of steps: the role test, one step per   *)
(* line of the loop, and the emission of the blocks.                       *)
(***************************************************************************)

\* The agents whose output goes to the expander.
ProgressMarkers == {"SUPERVISOR", "RESEARCH_AGENT", "DATA_AGENT", "PREDICTION_AGENT"}

\* The agents whose output goes to the main display.
FinalMarkers == {"PLANNING_AGENT", "REPORT_AGENT"}

\* str.upper() of a token.
upper(tok) ==
    CASE tok = "supervisor" -> "SUPERVISOR"
      [] tok = "Report_Agent" -> "REPORT_AGENT"
      [] tok = "x" -> "X"
      [] tok = "y" -> "Y"
      [] OTHER -> tok

\* line_upper = line.upper()
line_upper(line) == [i \in 1..Len(line) |-> upper(line[i])]

\* agent in line_upper
Contains(text, agent) == \E i \in 1..Len(text) : text[i] = agent

\* Whitespace, as str.strip() sees it.
IsSpace(tok) == tok \in {" ", "\n"}

\* str.strip(): the text without its leading and trailing whitespace.
strip(text) ==
    LET keep == {i \in 1..Len(text) : ~IsSpace(text[i])} IN
    IF keep = {} THEN << >>
    ELSE SubSeq(text,
                CHOOSE i \in keep : \A j \in keep : i <= j,
                CHOOSE i \in keep : \A j \in keep : j <= i)

\* content.split('\n')
RECURSIVE split(_)
split(text) ==
    IF ~Contains(text, "\n") THEN <<text>>
    ELSE LET k == CHOOSE i \in 1..Len(text) :
                      text[i] = "\n" /\ \A j \in 1..(i - 1) : text[j] # "\n"
         IN <<SubSeq(text, 1, k - 1)>> \o split(SubSeq(text, k + 1, Len(text)))

\* A faulty test: the role is not looked at.
is_agent_output_any_role(msg) == msg.content # << >>

\* A faulty test: empty content is segmented too.
is_agent_output_empty_too(msg) == msg.role = "assistant"

\* if message["role"] == "assistant" and content
is_agent_output(msg) == msg.role = "assistant" /\ msg.content # << >>

\* A faulty start: the expander is the default section.
InitialSectionProgress == "progress"

\* current_section = "final"  # Default to final
InitialSection == "final"

\* A faulty header test: the line is trimmed first.
is_header_trimmed(line) ==
    /\ Len(strip(line)) >= 1
    /\ strip(line)[1] = "**"
    /\ strip(line)[Len(strip(line))] = "**"

\* line.startswith('**') and line.endswith('**')
is_header(line) ==
    /\ Len(line) >= 1
    /\ line[1] = "**"
    /\ line[Len(line)] = "**"

\* A faulty choice: the final agents are looked for first.
header_section_final_first(section, lu) ==
    IF \E agent \in FinalMarkers : Contains(lu, agent) THEN "final"
    ELSE IF \E agent \in ProgressMarkers : Contains(lu, agent) THEN "progress"
    ELSE section

\* A faulty choice: a header of another agent falls back to final.
header_section_other_final(section, lu) ==
    IF \E agent \in ProgressMarkers : Contains(lu, agent) THEN "progress"
    ELSE "final"

\* The section a header line gives: progress agents, elif final agents,
\* else the section stays.
header_section(section, lu) ==
    IF \E agent \in ProgressMarkers : Contains(lu, agent) THEN "progress"
    ELSE IF \E agent \in FinalMarkers : Contains(lu, agent) THEN "final"
    ELSE section

\* The section after the header test of a line.
section_after(section, line) ==
    IF is_header(line) THEN header_section(section, line_upper(line))
    ELSE section

\* A faulty append: a header line is left out of the text.
append_line_no_header(buffer, line) ==
    IF is_header(line) THEN buffer ELSE buffer \o line \o <<"\n">>

\* progress_content += line + '\n' / final_content += line + '\n'
append_line(buffer, line) == buffer \o line \o <<"\n">>

\* One block, if the text is not blank.
Block(kind, text) ==
    IF strip(text) # << >> THEN <<[kind |-> kind, text |-> strip(text)]>> ELSE << >>

\* A faulty emission: the expander comes first.
emit_blocks_progress_first(final, progress) ==
    Block("progress", progress) \o Block("final", final)

\* The final content first, then the progress content in an expander.
emit_blocks(final, progress) == Block("final", final) \o Block("progress", progress)

\* The lines a message may hold.
Lines ==
    {<< >>, <<" ">>, <<"x">>, <<"y">>, <<" ", "x">>,
     <<"**", "SUPERVISOR", "**">>, <<"**", "supervisor", "**">>,
     <<"**", "REPORT_AGENT", "**">>, <<"**", "Report_Agent", "**">>,
     <<"**", "x", "**">>,
     <<" ", "**", "SUPERVISOR", "**">>, <<"**", "SUPERVISOR", "**", " ">>,
     <<" ", "**", "REPORT_AGENT", "**">>,
     <<"**", "SUPERVISOR", "REPORT_AGENT", "**">>,
     <<"**", "REPORT_AGENT", "SUPERVISOR", "**">>,
     <<"SUPERVISOR">>, <<"**", "SUPERVISOR">>}

\* '\n'.join(lines)
RECURSIVE join(_)
join(lines) ==
    IF lines = << >> THEN << >>
    ELSE IF Len(lines) = 1 THEN lines[1]
    ELSE lines[1] \o <<"\n">> \o join(Tail(lines))

\* The contents a message may hold: empty, or up to MaxLines lines.
Contents ==
    {<< >>} \cup {join(ls) : ls \in UNION {[1..n -> Lines] : n \in 1..MaxLines}}

\* for message in messages: one message of the list.
SegInit ==
    /\ session_state = << >>
    /\ threads_db = << >>
    /\ sidebar = NoSidebar
    /\ last = Step("start", 0, "none", "none", "none")
    /\ message \in [role : {"assistant", "user"}, content : Contents]
    /\ seg_pc = "start"
    /\ line_no = 1
    /\ current_section = "final"
    /\ progress_content = << >>
    /\ final_content = << >>
    /\ chat = << >>

\* An assistant message with content: the loop over its lines starts.
BeginSegment ==
    /\ seg_pc = "start"
    /\ is_agent_output(message)
    /\ seg_pc' = "scan"
    /\ line_no' = 1
    /\ current_section' = InitialSection
    /\ progress_content' = << >>
    /\ final_content' = << >>
    /\ UNCHANGED <<message, chat>>
    /\ UNCHANGED ctlvars

\* for line in lines: one turn of the loop.
ScanLine ==
    /\ seg_pc = "scan"
    /\ line_no <= Len(split(message.content))
    /\ LET line == split(message.content)[line_no]
           section == section_after(current_section, line)
       IN
       /\ current_section' = section
       /\ IF section = "progress"
          THEN /\ progress_content' = append_line(progress_content, line)
               /\ UNCHANGED final_content
          ELSE /\ final_content' = append_line(final_content, line)
               /\ UNCHANGED progress_content
    /\ line_no' = line_no + 1
    /\ UNCHANGED <<message, seg_pc, chat>>
    /\ UNCHANGED ctlvars

\* After the loop: the blocks are emitted.
EmitSegments ==
    /\ seg_pc = "scan"
    /\ line_no > Len(split(message.content))
    /\ chat' = emit_blocks(final_content, progress_content)
    /\ seg_pc' = "done"
    /\ UNCHANGED <<message, line_no, current_section, progress_content, final_content>>
    /\ UNCHANGED ctlvars

\* else: st.markdown(content)
DisplayPlain ==
    /\ seg_pc = "start"
    /\ ~is_agent_output(message)
    /\ chat' = <<[kind |-> "plain", text |-> message.content]>>
    /\ seg_pc' = "done"
    /\ UNCHANGED <<message, line_no, current_section, progress_content, final_content>>
    /\ UNCHANGED ctlvars

SegNext ==
    \/ BeginSegment
    \/ ScanLine
    \/ EmitSegments
    \/ DisplayPlain

SegSpec == SegInit /\ [][SegNext]_vars

(***************************************************************************)
(* Claims                                                                  *)
(***************************************************************************)

\* The transitions of the controller.
Transitions == {"Bootstrap", "Select", "CreateNew", "Delete"}

\* Both processed-id sets are set and empty.
ProcessedIdsEmpty(ss) ==
    /\ Has(ss, "processed_message_ids") /\ ss.processed_message_ids = {}
    /\ Has(ss, "processed_tools_ids") /\ ss.processed_tools_ids = {}

\* The fields of the Session State the transitions own.
SessionFields ==
    {"current_thread_id", "thread_ids", "messages",
     "processed_message_ids", "processed_tools_ids"}

\* Two session states agree on every field the transitions own.
SameSession(a, b) ==
    \A k \in SessionFields :
        /\ Has(a, k) <=> Has(b, k)
        /\ Has(a, k) => a[k] = b[k]

\* C1: whenever a persistence call made during Bootstrap fails, the session
\* does not crash and Bootstrap completes with messages = [welcome message],
\* current_thread_id set and both processed-id sets empty.
C1_BootstrapFallback ==
    (last.op = "Bootstrap" /\ last.failed # "none") =>
        /\ last.outcome = "completed"
        /\ Has(session_state, "current_thread_id")
        /\ Has(session_state, "messages")
        /\ session_state.messages = <<WelcomeMessage>>
        /\ ProcessedIdsEmpty(session_state)

\* C2: after any completed transition (Bootstrap, Select, CreateNew, Delete),
\* if the roster is non-empty then current_thread_id is the id of a roster
\* entry.
C2_RosterIntegrity ==
    (/\ last.op \in Transitions
     /\ last.outcome = "completed"
     /\ session_state.thread_ids # << >>) =>
        /\ Has(session_state, "current_thread_id")
        /\ session_state.current_thread_id \in RosterIds(session_state.thread_ids)

\* C2 happens: a Delete has completed on a roster of two entries.
C2_Witness ==
    /\ last.op = "Delete"
    /\ last.outcome = "completed"
    /\ Len(session_state.thread_ids) = 2

\* C3: a Bootstrap that completes leaves current_thread_id set and messages
\* populated; with a non-empty roster and no failed load it has selected the
\* last roster entry and loaded that thread's full history; with an empty
\* roster it has created a thread in persistence, made it current, seeded
\* messages with the welcome message and refreshed the roster.
C3_BootstrapPostcondition ==
    [][(last'.op = "Bootstrap" /\ last'.outcome = "completed") =>
        LET roster == load_thread_ids(threads_db) IN
        /\ Has(session_state', "current_thread_id")
        /\ Has(session_state', "messages")
        /\ (roster # << >> /\ last'.failed = "none") =>
              /\ session_state'.thread_ids = roster
              /\ session_state'.current_thread_id = roster[Len(roster)].thread_id
              /\ session_state'.messages =
                    ThreadMessages(threads_db, roster[Len(roster)].thread_id)
              /\ threads_db' = threads_db
        /\ roster = << >> =>
              /\ Len(threads_db') = 1
              /\ session_state'.current_thread_id = threads_db'[1].thread_id
              /\ session_state'.messages = <<WelcomeMessage>>
              /\ threads_db'[1].messages = <<WelcomeMessage>>
              /\ session_state'.thread_ids = load_thread_ids(threads_db')
    ]_vars

\* C3 happens: Bootstrap found two threads and loaded the two messages of
\* the last one.
C3_Witness ==
    /\ last.op = "Bootstrap"
    /\ last.path = "loaded"
    /\ Len(session_state.thread_ids) = 2
    /\ session_state.current_thread_id = 2
    /\ Len(session_state.messages) = 2
    /\ Len(threads_db[1].messages) = 1

C7_SelectLoads ==
    [][(last'.op = "Select" /\ last'.outcome = "completed") =>
        /\ last'.id \in RosterIds(session_state.thread_ids)
        /\ last'.id # session_state.current_thread_id
        /\ session_state'.messages = ThreadMessages(threads_db, last'.id)
        /\ session_state'.current_thread_id = last'.id
        /\ session_state'.thread_ids = session_state.thread_ids
        /\ threads_db' = threads_db
    ]_vars

\* C7 happens: a Select of the older of two threads loaded its two messages.
C7_Witness ==
    /\ last.op = "Select"
    /\ last.outcome = "completed"
    /\ last.id = 1
    /\ session_state.current_thread_id = 1
    /\ Len(session_state.messages) = 2
    /\ Len(threads_db) = 2

\* C8: Select(current_thread_id) leaves the session state unchanged, and
\* the conversation button that is disabled is exactly the one of the roster
\* entry whose id is current_thread_id, so re-selecting the active thread
\* starts no load.
C8_SelectCurrentNoOp ==
    [][/\ \A i \in 1..Len(sidebar'.select) :
            sidebar'.select[i].disabled <=>
                sidebar'.select[i].thread_id = session_state'.current_thread_id
       /\ (last'.op \in Transitions /\ last'.outcome = "completed") =>
            {sidebar'.select[i].thread_id : i \in 1..Len(sidebar'.select)} =
                RosterIds(session_state'.thread_ids)
       /\ (last'.op = "Select" /\ last'.id = session_state.current_thread_id) =>
            /\ last'.outcome = "disabled"
            /\ session_state' = session_state
            /\ threads_db' = threads_db
    ]_vars

\* C8 happens: the button of the current thread was pressed while another
\* thread's button was enabled.
C8_Witness ==
    /\ last.op = "Select"
    /\ last.outcome = "disabled"
    /\ last.id = session_state.current_thread_id
    /\ \E i \in 1..Len(sidebar.select) : ~sidebar.select[i].disabled

\* C9: whenever waiting_for_approval is true, the controller refuses to
\* start a Select, CreateNew or Delete transition and surfaces a waiting
\* state; no such transition changes the session state.
C9_ApprovalGate ==
    [][(/\ Has(session_state, "waiting_for_approval")
        /\ session_state.waiting_for_approval
        /\ last'.op \in {"Select", "CreateNew", "Delete"}) =>
        /\ last'.outcome = "waiting"
        /\ session_state' = session_state
    ]_vars

\* C10: a persistence failure during Select, CreateNew or Delete is caught
\* at the transition boundary and reported as a non-fatal error, and the
\* session state is the same after the failed transition as before it.
C10_FailureReported ==
    [][(/\ last'.op \in {"Select", "CreateNew", "Delete"}
        /\ last'.failed # "none") =>
        /\ last'.outcome = "reported"
        /\ session_state' = session_state
    ]_vars

\* C11 as stated: in every state reached after a completed transition,
\* messages is the full ordered history, as held by persistence, of the
\* thread identified by current_thread_id, also after a Bootstrap whose
\* conversation load failed.
C11_MessagesMirrorThread ==
    (last.op \in Transitions /\ last.outcome = "completed") =>
        /\ HasThread(threads_db, session_state.current_thread_id)
        /\ session_state.messages =
              ThreadMessages(threads_db, session_state.current_thread_id)

\* C11, amended: a completed Bootstrap whose load succeeded, or that created
\* the thread, and a completed Select leave messages equal to the persisted
\* history of current_thread_id; a Bootstrap whose conversation load failed
\* leaves messages = [welcome message] whatever the thread holds; CreateNew
\* and Delete leave messages and current_thread_id as they were.
C11_MessagesAfterTransition ==
    [][(last'.op \in Transitions /\ last'.outcome = "completed") =>
        /\ HasThread(threads_db', session_state'.current_thread_id)
        /\ (last'.op = "Select" \/ (last'.op = "Bootstrap" /\ last'.failed = "none")) =>
              session_state'.messages =
                  ThreadMessages(threads_db', session_state'.current_thread_id)
        /\ (last'.op = "Bootstrap" /\ last'.failed # "none") =>
              session_state'.messages = <<WelcomeMessage>>
        /\ last'.op \in {"CreateNew", "Delete"} =>
              /\ session_state'.messages = session_state.messages
              /\ session_state'.current_thread_id = session_state.current_thread_id
    ]_vars

\* C11 happens: Bootstrap's load of a thread of two messages failed, and
\* messages is the welcome message alone.
C11_Witness ==
    /\ last.op = "Bootstrap"
    /\ last.outcome = "completed"
    /\ last.failed = "load_conversation"
    /\ Len(ThreadMessages(threads_db, session_state.current_thread_id)) = 2
    /\ session_state.messages = <<WelcomeMessage>>

\* C20: once a Bootstrap has left current_thread_id set, every later run of
\* session initialisation leaves current_thread_id, messages, the roster and
\* the processed-id sets unchanged and makes no create-thread or
\* load-conversation call to persistence.
C20_BootstrapOnce ==
    [][(Has(session_state, "current_thread_id") /\ last'.op = "Rerun") =>
        /\ SameSession(session_state', session_state)
        /\ threads_db' = threads_db
        /\ last'.outcome = "completed"
        /\ last'.path = "initialized"
        /\ last'.failed = "none"
    ]_vars

\* C20 happens: the script ran again after a Bootstrap that had fallen back
\* to the welcome message for a thread of two messages.
C20_Witness ==
    /\ last.op = "Rerun"
    /\ session_state.messages = <<WelcomeMessage>>
    /\ Len(session_state.thread_ids) = 2
    /\ Len(ThreadMessages(threads_db, session_state.current_thread_id)) = 2

(***************************************************************************)
(* Claims about display_chat_messages                                      *)
(***************************************************************************)

\* The lines of the message being displayed.
MessageLines == split(message.content)

\* The loop has just taken a line.
ScannedLine == seg_pc = "scan" /\ line_no > 1

\* The line the loop has just taken.
JustScanned == MessageLines[line_no - 1]

\* The message has gone through the loop and its blocks are emitted.
Segmented == seg_pc = "done" /\ message.role = "assistant" /\ message.content # << >>

\* The text of the emitted block of a kind, empty if there is none.
BlockText(kind) ==
    IF \E i \in 1..Len(chat) : chat[i].kind = kind
    THEN chat[CHOOSE i \in 1..Len(chat) : chat[i].kind = kind].text
    ELSE << >>

\* The non-blank lines of a text, each trimmed, in order.
NonBlankLines(text) ==
    LET ls == split(text) IN
    SelectSeq([i \in 1..Len(ls) |-> strip(ls[i])], LAMBDA l : l # << >>)

\* The entries of a sequence at the positions in S, in order.
RECURSIVE Restrict(_, _, _)
Restrict(seq, S, i) ==
    IF i > Len(seq) THEN << >>
    ELSE (IF i \in S THEN <<seq[i]>> ELSE << >>) \o Restrict(seq, S, i + 1)

\* A line that starts and ends with the bold delimiter, as written.
BoldDelimited(line) == Len(line) >= 1 /\ line[1] = "**" /\ line[Len(line)] = "**"

\* A line names a progress agent, in any case.
NamesProgress(line) == \E i \in 1..Len(line) : upper(line[i]) \in ProgressMarkers

\* A line names a final agent, in any case.
NamesFinal(line) == \E i \in 1..Len(line) : upper(line[i]) \in FinalMarkers

\* The section the marker routing gives line i: that of the last header
\* with a marker at or before it, final if there is none.
RoutedSection(lines, i) ==
    LET H == {j \in 1..i : BoldDelimited(lines[j])
                           /\ (NamesProgress(lines[j]) \/ NamesFinal(lines[j]))}
    IN IF H = {} THEN "final"
       ELSE LET h == CHOOSE j \in H : \A k \in H : k <= j IN
            IF NamesProgress(lines[h]) THEN "progress" ELSE "final"

\* The lines routed to a section, each with its line break, from line i on.
RECURSIVE Routed(_, _, _)
Routed(lines, kind, i) ==
    IF i > Len(lines) THEN << >>
    ELSE (IF RoutedSection(lines, i) = kind THEN lines[i] \o <<"\n">> ELSE << >>)
         \o Routed(lines, kind, i + 1)

\* C12: every non-blank line of an assistant content appears exactly once
\* across the final and the progress segment together, and within each
\* segment the lines keep their original relative order.
C12_SegmentCompleteness ==
    (seg_pc = "done" /\ message.role = "assistant") =>
        LET all == NonBlankLines(message.content) IN
        \E S \in SUBSET (1..Len(all)) :
            /\ NonBlankLines(BlockText("final")) = Restrict(all, S, 1)
            /\ NonBlankLines(BlockText("progress")) =
                  Restrict(all, (1..Len(all)) \ S, 1)

\* C12 happens: three non-blank lines, the middle one a progress header, have
\* been split over a final and a progress segment.
C12_Witness ==
    /\ Segmented
    /\ MessageLines = <<<<"x">>, <<"**", "SUPERVISOR", "**">>, <<"y">>>>
    /\ Len(chat) = 2

\* C13: a header line with a progress marker sends itself and the lines
\* after it, up to the next header line with a final marker, to the progress
\* segment; a header line with a final marker sends itself and the lines
\* after it, up to the next progress header, to the final segment; the final
\* segment is emitted before the progress segment.
C13_MarkerRouting ==
    Segmented =>
        chat = Block("final", Routed(MessageLines, "final", 1))
               \o Block("progress", Routed(MessageLines, "progress", 1))

\* C13 happens: a progress header, a line and a final header gave the final
\* segment with the final header and then the progress segment.
C13_Witness ==
    /\ Segmented
    /\ MessageLines = <<<<"**", "SUPERVISOR", "**">>, <<"x">>,
                        <<"**", "REPORT_AGENT", "**">>>>
    /\ chat = <<[kind |-> "final", text |-> <<"**", "REPORT_AGENT", "**">>],
                [kind |-> "progress",
                 text |-> <<"**", "SUPERVISOR", "**", "\n", "x">>]>>

\* C14 as stated: a line whose trimmed text starts and ends with the bold
\* delimiter and whose uppercase form contains a marker switches the
\* section, also with whitespace around the delimiters.
C14_HeaderOnTrimmedLine ==
    [][(seg_pc = "scan" /\ line_no' = line_no + 1) =>
        LET t == strip(MessageLines[line_no]) IN
        /\ (BoldDelimited(t) /\ NamesProgress(t)) => current_section' = "progress"
        /\ (BoldDelimited(t) /\ NamesFinal(t) /\ ~NamesProgress(t)) =>
              current_section' = "final"
    ]_vars

\* C14, amended: header recognition is done on the line as written: a line
\* that itself starts and ends with the bold delimiter and whose uppercase
\* form contains a marker switches the section, in whatever case the marker
\* is written; a line with whitespace before the opening or after the
\* closing delimiter is no header and leaves the section as it is.
C14_HeaderOnRawLine ==
    [][(seg_pc = "scan" /\ line_no' = line_no + 1) =>
        LET line == MessageLines[line_no] IN
        /\ (BoldDelimited(line) /\ NamesProgress(line)) =>
              current_section' = "progress"
        /\ (BoldDelimited(line) /\ NamesFinal(line) /\ ~NamesProgress(line)) =>
              current_section' = "final"
        /\ (line # strip(line)) => current_section' = current_section
    ]_vars

\* C14 happens: a progress header written with a leading blank has been
\* taken after a final header, and the section is still final; before it a
\* lower-case header had switched to progress.
C14_Witness ==
    /\ ScannedLine
    /\ line_no = 4
    /\ MessageLines[1] = <<"**", "supervisor", "**">>
    /\ MessageLines[2] = <<"**", "Report_Agent", "**">>
    /\ JustScanned = <<" ", "**", "SUPERVISOR", "**">>
    /\ current_section = "final"
    /\ progress_content = <<"**", "supervisor", "**", "\n">>

\* C15: a bold-delimited line with no progress and no final marker leaves
\* the section unchanged, and it goes to the segment that was current
\* before it.
C15_UnmatchedHeaderKeepsSection ==
    [][(/\ seg_pc = "scan"
        /\ line_no' = line_no + 1
        /\ BoldDelimited(strip(MessageLines[line_no]))
        /\ ~NamesProgress(MessageLines[line_no])
        /\ ~NamesFinal(MessageLines[line_no])) =>
        /\ current_section' = current_section
        /\ current_section = "progress" =>
              /\ progress_content' = progress_content \o MessageLines[line_no] \o <<"\n">>
              /\ final_content' = final_content
        /\ current_section = "final" =>
              /\ final_content' = final_content \o MessageLines[line_no] \o <<"\n">>
              /\ progress_content' = progress_content
    ]_vars

\* C15 happens: a header of another agent has been taken in the progress
\* section and was added to the progress text.
C15_Witness ==
    /\ ScannedLine
    /\ line_no = 3
    /\ MessageLines[1] = <<"**", "SUPERVISOR", "**">>
    /\ JustScanned = <<"**", "x", "**">>
    /\ current_section = "progress"
    /\ final_content = << >>

\* No line of the message is a header with a marker.
NoHeaderLines ==
    \A i \in 1..Len(MessageLines) :
        ~(BoldDelimited(strip(MessageLines[i]))
          /\ (NamesProgress(MessageLines[i]) \/ NamesFinal(MessageLines[i])))

\* C16 as stated: content with no header lines yields exactly one segment,
\* of kind final, equal to the whole trimmed content.
C16_NoHeaderOneFinalSegment ==
    (Segmented /\ NoHeaderLines) =>
        chat = <<[kind |-> "final", text |-> strip(message.content)]>>

\* C16, amended: the section starts as final, so content with no header
\* lines and at least one non-blank line yields exactly one segment, of kind
\* final, equal to the whole trimmed content, and no progress segment;
\* with only blank lines it yields no segment; every line before the first
\* progress header is classified final.
C16_DefaultFinal ==
    /\ (Segmented /\ NoHeaderLines /\ strip(message.content) # << >>) =>
          chat = <<[kind |-> "final", text |-> strip(message.content)]>>
    /\ (Segmented /\ NoHeaderLines /\ strip(message.content) = << >>) =>
          chat = << >>
    /\ (/\ seg_pc = "scan"
        /\ \A j \in 1..(line_no - 1) :
              ~(BoldDelimited(MessageLines[j]) /\ NamesProgress(MessageLines[j]))) =>
          /\ current_section = "final"
          /\ progress_content = << >>
          /\ final_content = Routed(SubSeq(MessageLines, 1, line_no - 1), "final", 1)

\* C16 happens: two plain lines gave one final segment holding both.
C16_Witness ==
    /\ Segmented
    /\ MessageLines = <<<<"x">>, <<"y">>>>
    /\ chat = <<[kind |-> "final", text |-> <<"x", "\n", "y">>]>>

\* C17 as stated: for an assistant message whose content is empty or only
\* blank lines nothing is emitted.
C17_EmptyContentNothingEmitted ==
    (seg_pc = "done" /\ message.role = "assistant"
     /\ strip(message.content) = << >>) =>
        chat = << >>

\* C17, amended: an assistant content of blank lines only, with at least
\* one character, yields no segment at all; an empty content does not reach
\* the loop and is emitted as is, as one opaque block with empty text; in
\* neither case is there a final or a progress segment.
C17_BlankContent ==
    (seg_pc = "done" /\ message.role = "assistant"
     /\ strip(message.content) = << >>) =>
        /\ message.content # << >> => chat = << >>
        /\ message.content = << >> => chat = <<[kind |-> "plain", text |-> << >>]>>
        /\ \A i \in 1..Len(chat) : chat[i].kind \notin {"final", "progress"}

\* C17 happens: an assistant message with empty content has been displayed.
C17_Witness ==
    /\ seg_pc = "done"
    /\ message.role = "assistant"
    /\ message.content = << >>
    /\ Len(chat) = 1

\* C18: a message whose role is not assistant does not go through the loop:
\* its content is emitted as one opaque block and there is no progress
\* segment, also when it holds bold-delimited lines naming progress agents.
C18_NonAssistantBypass ==
    /\ (seg_pc = "done" /\ message.role # "assistant") =>
          chat = <<[kind |-> "plain", text |-> message.content]>>
    /\ message.role # "assistant" =>
          /\ seg_pc \in {"start", "done"}
          /\ progress_content = << >>
          /\ final_content = << >>

\* C18 happens: a user message with a progress header line was emitted as
\* one block.
C18_Witness ==
    /\ seg_pc = "done"
    /\ message.role = "user"
    /\ MessageLines = <<<<"x">>, <<"**", "SUPERVISOR", "**">>, <<"y">>>>
    /\ Len(chat) = 1

\* C19: a header line that contains both a progress marker and a final
\* marker sets the section to progress, whatever the order of the two
\* markers in the line and whatever the section was before it.
C19_ProgressPrecedence ==
    [][(/\ seg_pc = "scan"
        /\ line_no' = line_no + 1
        /\ BoldDelimited(MessageLines[line_no])
        /\ NamesProgress(MessageLines[line_no])
        /\ NamesFinal(MessageLines[line_no])) =>
        current_section' = "progress"
    ]_vars

\* C19 happens: in the final section, a header naming the final agent
\* first and the progress agent second has switched to progress.
C19_Witness ==
    /\ ScannedLine
    /\ line_no = 3
    /\ MessageLines[1] = <<"**", "REPORT_AGENT", "**">>
    /\ JustScanned = <<"**", "REPORT_AGENT", "SUPERVISOR", "**">>
    /\ current_section = "progress"
    /\ progress_content = <<"**", "REPORT_AGENT", "SUPERVISOR", "**", "\n">>

====
